---- MODULE Spec2Model ----
(***************************************************************************)
(* Model of src/homework.py: the Version class (splitter, core parser,     *)
(* pre-release parser, comparator) and the comparison operators that       *)
(* functools.total_ordering derives for it.                                *)
(*                                                                         *)
(* A Python str is modelled as a sequence of one-character strings, so     *)
(* that splitting, stripping, matching and integer parsing are computed    *)
(* character by character, as the code does.  An optional value (None or   *)
(* a value) is modelled as the empty tuple or a one-element tuple.         *)
(***************************************************************************)
EXTENDS Integers, Sequences, FiniteSets, TLC

VARIABLES arg, obj, exc, res, pc

vars == <<arg, obj, exc, res, pc>>

(***************************************************************************)
(* Bounds of the explored inputs.                                          *)
(***************************************************************************)
\* most pieces of Atoms a raw string of ParseInit is made of
MaxPieces == 5
\* most dot-separated identifiers in a pre-release tail of PairInit/TripleInit
MaxParts == 2

(***************************************************************************)
(* Python values and str primitives.                                       *)
(***************************************************************************)
None == <<>>

Some(x) == <<x>>

Digits == {"0", "1", "2", "3", "4", "5", "6", "7", "8", "9"}

Whitespace == {" ", "\n"}

\* code point of a character, the order Python compares str by
Ord(c) ==
    CASE c = "\n" -> 10 [] c = " " -> 32 [] c = "+" -> 43 [] c = "-" -> 45
      [] c = "." -> 46 [] c = "0" -> 48 [] c = "1" -> 49 [] c = "2" -> 50
      [] c = "3" -> 51 [] c = "4" -> 52 [] c = "5" -> 53 [] c = "6" -> 54
      [] c = "7" -> 55 [] c = "8" -> 56 [] c = "9" -> 57 [] c = "A" -> 65
      [] c = "B" -> 66 [] c = "_" -> 95 [] c = "a" -> 97 [] c = "b" -> 98
      [] c = "v" -> 118

DigitVal(c) == Ord(c) - 48

\* s < t on str: lexicographic by code point, a proper prefix is smaller
RECURSIVE StrLess(_, _)
StrLess(s, t) ==
    IF t = <<>> THEN FALSE
    ELSE IF s = <<>> THEN TRUE
    ELSE IF Head(s) = Head(t) THEN StrLess(Tail(s), Tail(t))
    ELSE Ord(Head(s)) < Ord(Head(t))

\* s.lstrip(c): every leading c is removed
RECURSIVE LStrip(_, _)
LStrip(s, c) ==
    IF s # <<>> /\ Head(s) = c THEN LStrip(Tail(s), c) ELSE s

\* index of the first occurrence of c in s, 0 when there is none
RECURSIVE IndexFrom(_, _, _)
IndexFrom(s, c, i) ==
    IF i > Len(s) THEN 0
    ELSE IF s[i] = c THEN i
    ELSE IndexFrom(s, c, i + 1)

Find(s, c) == IndexFrom(s, c, 1)

\* s.split(c): the pieces between every occurrence of c
RECURSIVE Split(_, _)
Split(s, c) ==
    LET i == Find(s, c)
    IN  IF i = 0 THEN <<s>>
        ELSE <<SubSeq(s, 1, i - 1)>> \o Split(SubSeq(s, i + 1, Len(s)), c)

\* s.split(c, 1): at most one split, at the first occurrence of c
SplitOnce(s, c) ==
    LET i == Find(s, c)
    IN  IF i = 0 THEN <<s>>
        ELSE <<SubSeq(s, 1, i - 1), SubSeq(s, i + 1, Len(s))>>

\* length of the run of characters of set cs that s starts with
RECURSIVE RunLen(_, _)
RunLen(s, cs) ==
    IF s # <<>> /\ Head(s) \in cs THEN 1 + RunLen(Tail(s), cs) ELSE 0

\* value of a string of decimal digits (0 for the empty string)
RECURSIVE DecValue(_)
DecValue(s) ==
    IF s = <<>> THEN 0
    ELSE 10 * DecValue(SubSeq(s, 1, Len(s) - 1)) + DigitVal(s[Len(s)])

\* s.strip(): leading and trailing whitespace removed
RECURSIVE RStripWs(_)
RStripWs(s) ==
    IF s # <<>> /\ s[Len(s)] \in Whitespace
    THEN RStripWs(SubSeq(s, 1, Len(s) - 1)) ELSE s

StripWs(s) ==
    LET k == RunLen(s, Whitespace) IN RStripWs(SubSeq(s, k + 1, Len(s)))

Range(s) == {s[i] : i \in DOMAIN s}

RemoveUnderscores(s) == SelectSeq(s, LAMBDA c : c # "_")

\* int(s) of Python: optional surrounding whitespace, an optional sign, then
\* decimal digits in which single underscores may separate digits
IntBody(s) ==
    LET t == StripWs(s)
    IN  IF t # <<>> /\ Head(t) \in {"+", "-"} THEN Tail(t) ELSE t

IntAccepts(s) ==
    LET d == IntBody(s)
    IN  /\ d # <<>>
        /\ \A i \in 1..Len(d) : d[i] \in Digits \cup {"_"}
        /\ d[1] \in Digits
        /\ d[Len(d)] \in Digits
        /\ \A i \in 1..(Len(d) - 1) : ~(d[i] = "_" /\ d[i + 1] = "_")

IntValue(s) ==
    LET t == StripWs(s)
        v == DecValue(RemoveUnderscores(IntBody(s)))
    IN  IF t # <<>> /\ Head(t) = "-" THEN 0 - v ELSE v

(***************************************************************************)
(* class Version                                                           *)
(***************************************************************************)
IsAsciiLetter(c) == Ord(c) \in (65..90) \cup (97..122)

\* end of the longest prefix of s of the shape \d+\.\d+\.\d+ , 0 when s has
\* no such prefix
DigitTripleEnd(s) ==
    LET n1 == RunLen(s, Digits)
        r1 == SubSeq(s, n1 + 2, Len(s))
        n2 == RunLen(r1, Digits)
        r2 == SubSeq(r1, n2 + 2, Len(r1))
        n3 == RunLen(r2, Digits)
    IN  IF /\ n1 > 0 /\ Len(s) > n1 /\ s[n1 + 1] = "."
           /\ n2 > 0 /\ Len(r1) > n2 /\ r1[n2 + 1] = "."
           /\ n3 > 0
        THEN n1 + 1 + n2 + 1 + n3
        ELSE 0

\* re.match(r'^(\d+\.\d+\.\d+)([a-zA-Z].*)$', s): None, or the two groups.
\* '.' matches no line break and '$' matches at the end of the string or just
\* before a line break that ends it.
ReMatch(s) ==
    LET e    == DigitTripleEnd(s)
        rest == SubSeq(s, e + 2, Len(s))
        nl   == Find(rest, "\n")
    IN  IF e = 0 \/ Len(s) = e THEN None
        ELSE IF ~IsAsciiLetter(s[e + 1]) THEN None
        ELSE IF nl = 0
             THEN Some(<<SubSeq(s, 1, e), SubSeq(s, e + 1, Len(s))>>)
        ELSE IF nl = Len(rest)
             THEN Some(<<SubSeq(s, 1, e), SubSeq(s, e + 1, Len(s) - 1)>>)
        ELSE None

\* Version._split_version: (main_version, pre_release)
SplitVersion(raw) ==
    LET version == LStrip(raw, "v")
        match   == ReMatch(version)
    IN  IF Find(version, "-") # 0
        THEN [main_version |-> SplitOnce(version, "-")[1],
              pre_release  |-> Some(SplitOnce(version, "-")[2])]
        ELSE IF match # None
        THEN [main_version |-> match[1][1], pre_release |-> Some(match[1][2])]
        ELSE [main_version |-> version, pre_release |-> None]

\* PadParts with the wrong filler: missing components become '1'
RECURSIVE PadPartsWithOne(_)
PadPartsWithOne(version_parts) ==
    IF Len(version_parts) < 3
    THEN PadPartsWithOne(Append(version_parts, <<"1">>))
    ELSE version_parts

\* the while loop of _parse_main_version: append '0' up to three entries
RECURSIVE PadParts(_)
PadParts(version_parts) ==
    IF Len(version_parts) < 3
    THEN PadParts(Append(version_parts, <<"0">>))
    ELSE version_parts

\* Version._parse_main_version: raises ValueError, or (major, minor, patch)
ParseMainVersion(main_version) ==
    LET version_parts == PadParts(Split(main_version, "."))
    IN  IF \A i \in 1..3 : IntAccepts(version_parts[i])
        THEN [raised |-> FALSE,
              major  |-> IntValue(version_parts[1]),
              minor  |-> IntValue(version_parts[2]),
              patch  |-> IntValue(version_parts[3])]
        ELSE [raised |-> TRUE, major |-> 0, minor |-> 0, patch |-> 0]

\* re.findall(r'\d+', part)[0]: the first run of digits of part, <<>> if none
FirstDigitRun(part) ==
    LET k == RunLen(part, {c \in Range(part) : c \notin Digits})
        r == SubSeq(part, k + 1, Len(part))
    IN  SubSeq(r, 1, RunLen(r, Digits))

\* one element of parsed_parts: (is_numeric, value, string)
ParsePart(part) ==
    LET numbers == FirstDigitRun(part)
    IN  IF numbers # <<>>
        THEN [is_numeric |-> TRUE, value |-> DecValue(numbers), string |-> part]
        ELSE [is_numeric |-> FALSE, value |-> part, string |-> part]

\* Version._parse_pre_release_parts
ParsePreReleaseParts(pre_release) ==
    IF pre_release = None THEN None
    ELSE LET parts == Split(pre_release[1], ".")
         IN  Some([i \in 1..Len(parts) |-> ParsePart(parts[i])])

\* Version.__init__: raises ValueError, or the constructed object
Construct(version) ==
    LET sp == SplitVersion(version)
        mv == ParseMainVersion(sp.main_version)
    IN  IF mv.raised THEN None
        ELSE Some([version           |-> version,
                   major             |-> mv.major,
                   minor             |-> mv.minor,
                   patch             |-> mv.patch,
                   pre_release       |-> sp.pre_release,
                   pre_release_parts |-> ParsePreReleaseParts(sp.pre_release)])

\* Version._has_pre_release
HasPreRelease(self) == self.pre_release_parts # None

\* CompareSinglePreReleasePart with the second mixed branch returning True
\* as the first does: a textual identifier is also below a numeric one
CompareSingleMixedBothTrue(self_part, other_part) ==
    IF self_part.is_numeric /\ ~other_part.is_numeric THEN Some(TRUE)
    ELSE IF ~self_part.is_numeric /\ other_part.is_numeric THEN Some(TRUE)
    ELSE IF self_part.is_numeric /\ other_part.is_numeric
    THEN IF self_part.value < other_part.value THEN Some(TRUE)
         ELSE IF self_part.value > other_part.value THEN Some(FALSE)
         ELSE None
    ELSE IF StrLess(self_part.string, other_part.string) THEN Some(TRUE)
    ELSE IF StrLess(other_part.string, self_part.string) THEN Some(FALSE)
    ELSE None

\* CompareSinglePreReleasePart comparing two numeric identifiers by their
\* text instead of their value
CompareSingleNumericByText(self_part, other_part) ==
    IF self_part.is_numeric /\ ~other_part.is_numeric THEN Some(TRUE)
    ELSE IF ~self_part.is_numeric /\ other_part.is_numeric THEN Some(FALSE)
    ELSE IF StrLess(self_part.string, other_part.string) THEN Some(TRUE)
    ELSE IF StrLess(other_part.string, self_part.string) THEN Some(FALSE)
    ELSE None

\* Version._compare_single_pre_release_part: Some(TRUE) if self < other,
\* Some(FALSE) if self > other, None if equal
CompareSinglePreReleasePart(self_part, other_part) ==
    IF self_part.is_numeric /\ ~other_part.is_numeric THEN Some(TRUE)
    ELSE IF ~self_part.is_numeric /\ other_part.is_numeric THEN Some(FALSE)
    ELSE IF self_part.is_numeric /\ other_part.is_numeric
    THEN IF self_part.value < other_part.value THEN Some(TRUE)
         ELSE IF self_part.value > other_part.value THEN Some(FALSE)
         ELSE None
    ELSE IF StrLess(self_part.string, other_part.string) THEN Some(TRUE)
    ELSE IF StrLess(other_part.string, self_part.string) THEN Some(FALSE)
    ELSE None

\* the for loop of _compare_pre_release_parts, from index i on
RECURSIVE ComparePartsFrom(_, _, _)
ComparePartsFrom(sp, op, i) ==
    LET max_parts == IF Len(sp) > Len(op) THEN Len(sp) ELSE Len(op)
    IN  IF i > max_parts THEN FALSE
        ELSE IF i > Len(sp) THEN TRUE
        ELSE IF i > Len(op) THEN FALSE
        ELSE LET part_comparison == CompareSinglePreReleasePart(sp[i], op[i])
             IN  IF part_comparison # None THEN part_comparison[1]
                 ELSE ComparePartsFrom(sp, op, i + 1)

\* Version._compare_pre_release_parts
ComparePreReleaseParts(self, other) ==
    ComparePartsFrom(self.pre_release_parts[1], other.pre_release_parts[1], 1)

\* ComparePreRelease with the two one-sided results exchanged: a release is
\* below a pre-release
ComparePreReleaseFlipped(self, other) ==
    LET self_has_pre  == HasPreRelease(self)
        other_has_pre == HasPreRelease(other)
    IN  IF ~self_has_pre /\ ~other_has_pre THEN FALSE
        ELSE IF ~self_has_pre /\ other_has_pre THEN TRUE
        ELSE IF self_has_pre /\ ~other_has_pre THEN FALSE
        ELSE ComparePreReleaseParts(self, other)

\* Version._compare_pre_release
ComparePreRelease(self, other) ==
    LET self_has_pre  == HasPreRelease(self)
        other_has_pre == HasPreRelease(other)
    IN  IF ~self_has_pre /\ ~other_has_pre THEN FALSE
        ELSE IF ~self_has_pre /\ other_has_pre THEN FALSE
        ELSE IF self_has_pre /\ ~other_has_pre THEN TRUE
        ELSE ComparePreReleaseParts(self, other)

\* Equals comparing the parsed identifiers (kind, and value or text) instead
\* of the raw pre-release text
IdentifierKey(part) ==
    [is_numeric |-> part.is_numeric,
     number     |-> IF part.is_numeric THEN part.value ELSE 0,
     text       |-> IF part.is_numeric THEN <<>> ELSE part.string]

IdentifierKeys(self) ==
    IF self.pre_release_parts = None THEN None
    ELSE Some([i \in 1..Len(self.pre_release_parts[1]) |->
                  IdentifierKey(self.pre_release_parts[1][i])])

EqualsByIdentifiers(self, other) ==
    /\ self.major = other.major
    /\ self.minor = other.minor
    /\ self.patch = other.patch
    /\ IdentifierKeys(self) = IdentifierKeys(other)

\* Version.__eq__
Equals(self, other) ==
    /\ self.major = other.major
    /\ self.minor = other.minor
    /\ self.patch = other.patch
    /\ self.pre_release = other.pre_release

\* Version.__lt__
LessThan(self, other) ==
    IF self.major # other.major THEN self.major < other.major
    ELSE IF self.minor # other.minor THEN self.minor < other.minor
    ELSE IF self.patch # other.patch THEN self.patch < other.patch
    ELSE ComparePreRelease(self, other)

\* the operators functools.total_ordering derives from __lt__ and __eq__
\* (and the != the language derives from __eq__)
NotEquals(self, other) == ~Equals(self, other)

GreaterThan(self, other) == ~LessThan(self, other) /\ NotEquals(self, other)

LessOrEqual(self, other) == LessThan(self, other) \/ Equals(self, other)

GreaterOrEqual(self, other) == ~LessThan(self, other)

(***************************************************************************)
(* The inputs explored.                                                    *)
(***************************************************************************)
RECURSIVE Concat(_)
Concat(ss) == IF ss = <<>> THEN <<>> ELSE Head(ss) \o Concat(Tail(ss))

RECURSIVE Join(_, _)
Join(ss, sep) ==
    IF Len(ss) = 1 THEN ss[1] ELSE ss[1] \o sep \o Join(Tail(ss), sep)

SeqsUpTo(S, lo, hi) == UNION {[1..n -> S] : n \in lo..hi}

\* the pieces a raw string of ParseInit is made of: the characters the
\* splitter and the parsers distinguish, and one well-formed numeric core
Atoms ==
    {<<"v">>, <<".">>, <<"-">>, <<"0">>, <<"1">>, <<"b">>, <<"\n">>,
     <<"1", ".", "0", ".", "0">>}

ParseInputs == {Concat(p) : p \in SeqsUpTo(Atoms, 0, MaxPieces)}

Core100 == <<"1", ".", "0", ".", "0">>

\* pre-release identifiers: numeric ones that tie (2, 02), numeric ones whose
\* magnitude and spelling disagree (2, 10), textual ones
PairIdents == {<<"2">>, <<"0", "2">>, <<"1", "0">>, <<"a">>, <<"b">>}

TripleIdents == {<<"2">>, <<"0", "2">>, <<"a">>}

Tails(idents) == {Join(t, <<".">>) : t \in SeqsUpTo(idents, 1, MaxParts)}

\* other spellings: releases, omitted components, a leading v, letter
\* suffixes without a separator, an identifier with an embedded number,
\* upper case and multi-letter textual identifiers, another patch level
OtherVersions ==
    {Core100,
     <<"1", ".", "0">>,
     <<"v", "1", ".", "0", ".", "0">>,
     <<"1", ".", "0", ".", "1">>,
     <<"1", ".", "0", ".", "0", "b">>,
     <<"1", ".", "0", ".", "0", "b", "2">>,
     <<"1", ".", "0", ".", "0", "-", "B">>,
     <<"1", ".", "0", ".", "0", "-", "a", "b">>,
     <<"1", ".", "0", ".", "1", "-", "a">>}

PairPool == {Core100 \o <<"-">> \o t : t \in Tails(PairIdents)} \cup OtherVersions

TriplePool ==
    {Core100 \o <<"-">> \o t : t \in Tails(TripleIdents)}
        \cup {Core100, <<"1", ".", "0", ".", "1">>,
              <<"1", ".", "0", ".", "0", "b", "2">>}

(***************************************************************************)
(* The program: each argument is constructed in turn (Version(arg[i]),     *)
(* which returns an object or raises), then the constructed objects are    *)
(* compared with every operator, as the test suite does.                   *)
(***************************************************************************)
Slots == 1..Len(arg)

Pending == {i \in Slots : exc[i] = "pending"}

Built == {i \in Slots : obj[i] # None}

InitFrom(args) ==
    /\ arg \in args
    /\ obj = [i \in 1..Len(arg) |-> None]
    /\ exc = [i \in 1..Len(arg) |-> "pending"]
    /\ res = <<>>
    /\ pc = "construct"

ParseInit == InitFrom({<<s>> : s \in ParseInputs})

PairInit == InitFrom(PairPool \X PairPool)

TripleInit == InitFrom(TriplePool \X TriplePool \X TriplePool)

\* Version(arg[i]) for the next argument i
ConstructNext ==
    /\ pc = "construct"
    /\ LET i == CHOOSE k \in Pending : \A m \in Pending : k <= m
           v == Construct(arg[i])
       IN  /\ obj' = [obj EXCEPT ![i] = v]
           /\ exc' = [exc EXCEPT ![i] = IF v = None THEN "ValueError" ELSE "none"]
           /\ pc' = IF Pending = {i} THEN "compare" ELSE "construct"
    /\ UNCHANGED <<arg, res>>

\* left < right, left == right, left > right, ... for all constructed objects
CompareAll ==
    /\ pc = "compare"
    /\ res' = [p \in Built \X Built |->
                 LET left == obj[p[1]][1]
                     right == obj[p[2]][1]
                 IN  [lt |-> LessThan(left, right),
                      eq |-> Equals(left, right),
                      ne |-> NotEquals(left, right),
                      gt |-> GreaterThan(left, right),
                      le |-> LessOrEqual(left, right),
                      ge |-> GreaterOrEqual(left, right)]]
    /\ pc' = "done"
    /\ UNCHANGED <<arg, obj, exc>>

Next == ConstructNext \/ CompareAll

\* one raw string, every string of at most MaxPieces pieces
Spec == ParseInit /\ [][Next]_vars

\* two versions
PairSpec == PairInit /\ [][Next]_vars

\* three versions
TripleSpec == TripleInit /\ [][Next]_vars

TypeOK ==
    /\ pc \in {"construct", "compare", "done"}
    /\ \A i \in Slots : exc[i] \in {"pending", "ValueError", "none"}
    /\ \A i \in Slots : (obj[i] # None) <=> (exc[i] = "none")

(***************************************************************************)
(* Vocabulary of the properties.                                           *)
(***************************************************************************)
AllDigits(s) == s # <<>> /\ \A i \in 1..Len(s) : s[i] \in Digits

HasDigit(s) == \E i \in 1..Len(s) : s[i] \in Digits

StartsWith(s, c) == s # <<>> /\ s[1] = c

\* s is X.Y.Z for three non-empty groups of digits
IsNumericTriple(s) ==
    LET groups == Split(s, ".")
    IN  Len(groups) = 3 /\ \A i \in 1..3 : AllDigits(groups[i])

SameTriple(a, b) ==
    a.major = b.major /\ a.minor = b.minor /\ a.patch = b.patch

Done == pc = "done"

\* the object constructed from argument i
Ver(i) == obj[i][1]

(***************************************************************************)
(* C1 (as claimed): trichotomy.  For every pair of constructed versions    *)
(* a, b exactly one of a < b, a == b, b < a holds.                         *)
(***************************************************************************)
C1_Trichotomy ==
    Done => \A i, j \in Built :
        LET n == Cardinality({k \in 1..3 :
                     \/ k = 1 /\ res[<<i, j>>].lt
                     \/ k = 2 /\ res[<<i, j>>].eq
                     \/ k = 3 /\ res[<<j, i>>].lt})
        IN  n = 1

(***************************************************************************)
(* C2: LessThan is transitive and asymmetric over constructed versions:    *)
(* a < b and b < c imply a < c, and a < b and b < a never both hold.       *)
(***************************************************************************)
C2_TransitiveAsymmetric ==
    Done => \A i, j, k \in Built :
        /\ (res[<<i, j>>].lt /\ res[<<j, k>>].lt) => res[<<i, k>>].lt
        /\ ~(res[<<i, j>>].lt /\ res[<<j, i>>].lt)

\* a numeric pre-release below a longer textual pre-release below a release
C2_Witness ==
    /\ Done /\ Built = {1, 2, 3}
    /\ res[<<1, 2>>].lt /\ res[<<2, 3>>].lt /\ res[<<1, 3>>].lt
    /\ HasPreRelease(Ver(1)) /\ HasPreRelease(Ver(2)) /\ ~HasPreRelease(Ver(3))
    /\ SameTriple(Ver(1), Ver(3))
    /\ Ver(1).pre_release_parts[1][1].is_numeric
    /\ ~Ver(2).pre_release_parts[1][1].is_numeric
    /\ Len(Ver(1).pre_release_parts[1]) < Len(Ver(2).pre_release_parts[1])

(***************************************************************************)
(* C3 (as claimed): the derived > agrees with <.  For all constructed a,   *)
(* b: (b > a) iff (a < b), and a > b and b > a are never both true.        *)
(***************************************************************************)
C3_GreaterIsConverseOfLess ==
    Done => \A i, j \in Built :
        /\ res[<<j, i>>].gt <=> res[<<i, j>>].lt
        /\ ~(res[<<i, j>>].gt /\ res[<<j, i>>].gt)

(***************************************************************************)
(* C4: release beats pre-release.  When the raw string is X.Y.Z-T with     *)
(* X, Y, Z groups of digits and T non-empty, construction succeeds, the    *)
(* result is less than Version(X.Y.Z) and Version(X.Y.Z) is not less than  *)
(* the result.                                                             *)
(***************************************************************************)
C4_ReleaseBeatsPreRelease ==
    Done =>
        LET raw == arg[1]
            d == Find(raw, "-")
            core == SubSeq(raw, 1, d - 1)
        IN  (d # 0 /\ d < Len(raw) /\ IsNumericTriple(core)) =>
                /\ obj[1] # None
                /\ Construct(core) # None
                /\ LessThan(Ver(1), Construct(core)[1])
                /\ ~LessThan(Construct(core)[1], Ver(1))

\* 1.0.0-T was constructed, with a tail T that itself holds a dash and a dot
C4_Witness ==
    /\ Done
    /\ arg[1] = <<"1", ".", "0", ".", "0", "-", "b", "-", ".">>
    /\ obj[1] # None

(***************************************************************************)
(* C5: equality is defined on the triple and the raw pre-release text.     *)
(* For all constructed a, b: a == b iff major, minor, patch are pairwise   *)
(* equal and the pre-release tails are both absent or the same string;     *)
(* the raw inputs need not agree.                                          *)
(***************************************************************************)
C5_EqualityOnTripleAndText ==
    Done => \A i, j \in Built :
        LET a == Ver(i)
            b == Ver(j)
            sameText ==
                \/ a.pre_release = None /\ b.pre_release = None
                \/ /\ a.pre_release # None /\ b.pre_release # None
                   /\ Len(a.pre_release[1]) = Len(b.pre_release[1])
                   /\ \A k \in 1..Len(a.pre_release[1]) :
                          a.pre_release[1][k] = b.pre_release[1][k]
        IN  /\ res[<<i, j>>].eq <=> (SameTriple(a, b) /\ sameText)
            /\ res[<<i, j>>].ne <=> ~res[<<i, j>>].eq

\* 1.0.0b and 1.0.0-b: different raw inputs, equal versions
C5_Witness ==
    /\ Done
    /\ arg = << <<"1", ".", "0", ".", "0", "b">>,
                <<"1", ".", "0", ".", "0", "-", "b">> >>
    /\ res[<<1, 2>>].eq

(***************************************************************************)
(* C6 (as claimed): construction fails exactly when, after splitting and   *)
(* right-padding the numeric core with '0' to three entries, one of the    *)
(* first three dot-separated entries is empty or holds a non-digit.        *)
(***************************************************************************)
C6_FailsExactlyOnNonDigitEntry ==
    Done =>
        LET entries == PadParts(Split(SplitVersion(arg[1]).main_version, "."))
            bad == \E i \in 1..3 : ~AllDigits(entries[i])
        IN  /\ (exc[1] = "ValueError") <=> bad
            /\ (obj[1] # None) <=> ~bad

(***************************************************************************)
(* C7: default padding.  For a string of digits X, Version(X),             *)
(* Version(X.0) and Version(X.0.0) are pairwise equal; for X.Y,            *)
(* Version(X.Y) equals Version(X.Y.0); and every constructed version has   *)
(* natural numbers for major, minor and patch.                             *)
(***************************************************************************)
C7_DefaultPadding ==
    Done =>
        LET raw == arg[1]
            dot0 == <<".", "0">>
            groups == Split(raw, ".")
            v1 == Construct(raw \o dot0)
            v2 == Construct(raw \o dot0 \o dot0)
        IN  /\ AllDigits(raw) =>
                /\ obj[1] # None /\ v1 # None /\ v2 # None
                /\ Equals(Ver(1), v1[1]) /\ Equals(v1[1], Ver(1))
                /\ Equals(Ver(1), v2[1]) /\ Equals(v2[1], Ver(1))
                /\ Equals(v1[1], v2[1]) /\ Equals(v2[1], v1[1])
                /\ Ver(1).major = DecValue(raw)
            /\ (Len(groups) = 2 /\ AllDigits(groups[1]) /\ AllDigits(groups[2])) =>
                /\ obj[1] # None /\ v1 # None
                /\ Equals(Ver(1), v1[1]) /\ Equals(v1[1], Ver(1))
                /\ Ver(1).minor = DecValue(groups[2])
            /\ obj[1] # None =>
                /\ Ver(1).major \in Nat
                /\ Ver(1).minor \in Nat
                /\ Ver(1).patch \in Nat

\* Version('10') was constructed: 10.0.0
C7_Witness ==
    /\ Done
    /\ arg[1] = <<"1", "0">>
    /\ obj[1] # None
    /\ Ver(1).major = 10 /\ Ver(1).minor = 0 /\ Ver(1).patch = 0

(***************************************************************************)
(* C8 (as claimed): the splitter strips a single leading 'v' and no more.  *)
(* For a valid s that does not start with 'v', Version('v' + s) equals     *)
(* Version(s), and Version('vv' + s) fails.                                *)
(***************************************************************************)
C8_StripsSingleLeadingV ==
    Done =>
        LET raw == arg[1]
            s1 == SubSeq(raw, 2, Len(raw))
            s2 == SubSeq(raw, 3, Len(raw))
        IN  /\ (StartsWith(raw, "v") /\ ~StartsWith(s1, "v") /\ Construct(s1) # None)
                => (obj[1] # None /\ Equals(Ver(1), Construct(s1)[1]))
            /\ (StartsWith(raw, "v") /\ StartsWith(s1, "v") /\ ~StartsWith(s2, "v")
                    /\ Construct(s2) # None)
                => (obj[1] = None /\ exc[1] = "ValueError")

(***************************************************************************)
(* C9: pre-release precedence.  For two constructed versions with the same *)
(* triple that both have a pre-release tail, a < b is decided position by  *)
(* position: a Numeric identifier (a segment holding a digit, valued by    *)
(* its first digit run) is lesser than a Textual one, two Numeric ones     *)
(* compare by value only, two Textual ones lexicographically; the first    *)
(* position that does not tie decides; when all compared positions tie     *)
(* the shorter sequence is lesser and equal lengths are not less.          *)
(***************************************************************************)
IdTie(x, y) ==
    \/ x.is_numeric /\ y.is_numeric /\ x.value = y.value
    \/ ~x.is_numeric /\ ~y.is_numeric /\ x.string = y.string

IdLesser(x, y) ==
    \/ x.is_numeric /\ ~y.is_numeric
    \/ x.is_numeric /\ y.is_numeric /\ x.value < y.value
    \/ ~x.is_numeric /\ ~y.is_numeric /\ StrLess(x.string, y.string)

Precedes(a, b) ==
    LET n == IF Len(a) < Len(b) THEN Len(a) ELSE Len(b)
    IN  \/ \E k \in 1..n :
              /\ \A m \in 1..(k - 1) : IdTie(a[m], b[m])
              /\ IdLesser(a[k], b[k])
        \/ /\ \A m \in 1..n : IdTie(a[m], b[m])
           /\ Len(a) < Len(b)

WellClassified(ids, text) ==
    LET segs == Split(text, ".")
    IN  /\ Len(ids) = Len(segs)
        /\ \A k \in 1..Len(ids) :
              /\ ids[k].string = segs[k]
              /\ ids[k].is_numeric <=> HasDigit(segs[k])
              /\ ids[k].is_numeric =>
                    ids[k].value = DecValue(FirstDigitRun(segs[k]))

\* C9: with the same triple and two pre-release tails, a < b is exactly the
\* positional precedence Precedes of the identifier sequences
C9_PreReleasePrecedence ==
    Done => \A i, j \in Built :
        LET a == Ver(i)
            b == Ver(j)
        IN  (SameTriple(a, b) /\ a.pre_release # None /\ b.pre_release # None) =>
                /\ WellClassified(a.pre_release_parts[1], a.pre_release[1])
                /\ res[<<i, j>>].lt <=>
                       Precedes(a.pre_release_parts[1], b.pre_release_parts[1])

\* 1.0.0-2.a < 1.0.0-10: numeric magnitude, not spelling, decides position 1
C9_Witness ==
    /\ Done
    /\ arg = << <<"1", ".", "0", ".", "0", "-", "2", ".", "a">>,
                <<"1", ".", "0", ".", "0", "-", "1", "0">> >>
    /\ res[<<1, 2>>].lt /\ ~res[<<2, 1>>].lt

(***************************************************************************)
(* C10 (as claimed): the splitter applies three rules in order.  With a    *)
(* '-' in the string (after the 'v' strip) the core is what precedes the   *)
(* first '-' and the tail is everything after it; otherwise, with three    *)
(* dot-separated groups of digits immediately followed by a letter, the    *)
(* core is that prefix and the tail is the whole remainder; otherwise the  *)
(* whole string is the core and there is no tail.  So X.Y.Zb is a          *)
(* pre-release less than X.Y.Z.                                            *)
(***************************************************************************)
\* the end of a prefix X.Y.Z of s that a letter follows, 0 if there is none
LetterSuffixAt(s) ==
    LET ends == {e \in 1..(Len(s) - 1) :
                    IsNumericTriple(SubSeq(s, 1, e)) /\ IsAsciiLetter(s[e + 1])}
    IN  IF ends = {} THEN 0 ELSE CHOOSE e \in ends : TRUE

\* C10 (as claimed): dash rule, then letter-suffix rule, then no tail
C10_SplitterRules ==
    Done =>
        LET version == LStrip(arg[1], "v")
            sp == SplitVersion(arg[1])
            d == Find(version, "-")
            e == LetterSuffixAt(version)
        IN  IF d # 0
            THEN /\ sp.main_version = SubSeq(version, 1, d - 1)
                 /\ sp.pre_release = Some(SubSeq(version, d + 1, Len(version)))
            ELSE IF e # 0
            THEN /\ sp.main_version = SubSeq(version, 1, e)
                 /\ sp.pre_release = Some(SubSeq(version, e + 1, Len(version)))
                 /\ obj[1] # None
                 /\ Ver(1).pre_release = Some(SubSeq(version, e + 1, Len(version)))
                 /\ LessThan(Ver(1), Construct(SubSeq(version, 1, e))[1])
            ELSE /\ sp.main_version = version
                 /\ sp.pre_release = None

====
